---- MODULE Spec2Model ----
(***************************************************************************)
(* Model of the Linux side of the alouette_lib_tts Flutter plugin          *)
(* (linux/alouette_lib_tts_plugin.cc): the method-call handler of the      *)
(* "alouette_tts" channel, the probe process it spawns through system(),   *)
(* and the uname() query.                                                  *)
(*                                                                         *)
(* C strings are sequences of byte values without the terminating NUL;     *)
(* reading past the end of a sequence yields the NUL (0).                  *)
(* An optional value is a sequence of length 0 or 1.                       *)
(***************************************************************************)
EXTENDS Integers, Sequences, FiniteSets, TLC

\* Largest number of distinct observed calls the log keeps before the
\* host stops delivering calls.
MaxCalls == 3

(***************************************************************************)
(* String literals of the source.                                          *)
(***************************************************************************)
\* "isEdgeTTSAvailable"
S_isEdgeTTSAvailable ==
    <<105, 115, 69, 100, 103, 101, 84, 84, 83, 65, 118, 97, 105, 108, 97, 98, 108, 101>>
\* "getAvailableTTSEngines"
S_getAvailableTTSEngines ==
    <<103, 101, 116, 65, 118, 97, 105, 108, 97, 98, 108, 101, 84, 84, 83, 69, 110, 103, 105, 110, 101, 115>>
\* "getPlatformVersion"
S_getPlatformVersion ==
    <<103, 101, 116, 80, 108, 97, 116, 102, 111, 114, 109, 86, 101, 114, 115, 105, 111, 110>>
\* "edge-tts", the engine identifier appended to the list
S_edge_tts == <<101, 100, 103, 101, 45, 116, 116, 115>>
\* "Linux %s", the format of the platform version
S_format == <<76, 105, 110, 117, 120, 32, 37, 115>>

\* The shell command "which edge-tts > /dev/null 2>&1", as the shell parses
\* it: the program, its argument, and where its output goes.
WhichEdgeTts ==
    [prog |-> "which", arg |-> "edge-tts", stdout |-> "/dev/null", stderr |-> "/dev/null"]
\* A probe for another engine: what a mistyped command of one branch would be.
WhichEspeak ==
    [prog |-> "which", arg |-> "espeak", stdout |-> "/dev/null", stderr |-> "/dev/null"]
\* The command of the isEdgeTTSAvailable branch.
Command25 == WhichEdgeTts
\* The command of the getAvailableTTSEngines branch.
Command31 == WhichEdgeTts

(***************************************************************************)
(* Inputs: method names the host may deliver, and the operating system.    *)
(***************************************************************************)
\* "bogus"
S_bogus == <<98, 111, 103, 117, 115>>
\* "isedgettsavailable"
S_lowercase == <<105, 115, 101, 100, 103, 101, 116, 116, 115, 97, 118, 97, 105, 108, 97, 98, 108, 101>>
\* "getPlatformVersions": a recognized name followed by one more byte
S_longer == <<103, 101, 116, 80, 108, 97, 116, 102, 111, 114, 109, 86, 101, 114, 115, 105, 111, 110, 115>>

Recognized == {S_isEdgeTTSAvailable, S_getAvailableTTSEngines, S_getPlatformVersion}
Unrecognized == {S_bogus, S_lowercase, S_longer}
MethodNames == Recognized \cup Unrecognized

\* "Linux", "FreeBSD": kernel names; "6.1", "5.4": releases
S_Linux == <<76, 105, 110, 117, 120>>
S_FreeBSD == <<70, 114, 101, 101, 66, 83, 68>>
S_6_1 == <<54, 46, 49>>
S_5_4 == <<53, 46, 52>>
Kernels ==
    { [sysname |-> S_Linux, release |-> S_5_4],
      [sysname |-> S_FreeBSD, release |-> S_6_1] }

\* Directories of the file system, the values of PATH, and the places
\* edge-tts may be installed in.  "which" itself lives in /usr/bin.
Paths == { <<"/usr/bin">>, <<"/usr/bin", "/opt/bin">>, <<"/opt/bin">> }
Installations == { {}, {"/opt/bin"} }
Environments == [PATH : Paths]

VARIABLES
    pc,         \* where the handler is: "idle", or blocked in system() at "L25" / "L31"
    call,       \* the FlMethodCall being handled: <<>> or <<[name, responses]>>
    proc,       \* the probe process: [state, code]
    self,       \* the fields of the AlouetteLibTtsPlugin instance
    environ,    \* the environment of the host process in this run
    installed,  \* the directories that hold an executable edge-tts
    kernel,     \* what the kernel reports to uname()
    log         \* the observations of the calls handled so far

vars == <<pc, call, proc, self, environ, installed, kernel, log>>

(***************************************************************************)
(* Library functions the handler calls, by what they do.                   *)
(***************************************************************************)
\* The byte of a C string at position i (1-based); the terminator past the end.
ByteAt(s, i) == IF i <= Len(s) THEN s[i] ELSE 0

\* tolower() of the C locale.
tolower(c) == IF c >= 65 /\ c <= 90 THEN c + 32 ELSE c

RECURSIVE strcasecmp_from(_, _, _)
strcasecmp_from(a, b, i) ==
    LET x == tolower(ByteAt(a, i))
        y == tolower(ByteAt(b, i))
    IN  IF x # y THEN x - y
        ELSE IF x = 0 THEN 0
        ELSE strcasecmp_from(a, b, i + 1)

\* A comparison that ignores case: what strcmp is not.
strcasecmp(a, b) == strcasecmp_from(a, b, 1)

RECURSIVE strcmp_from(_, _, _)
strcmp_from(a, b, i) ==
    LET x == ByteAt(a, i)
        y == ByteAt(b, i)
    IN  IF x # y THEN x - y
        ELSE IF x = 0 THEN 0
        ELSE strcmp_from(a, b, i + 1)

\* strcmp(): the difference of the first bytes that differ, 0 when the
\* strings are equal up to and including the terminator.
strcmp(a, b) == strcmp_from(a, b, 1)

RECURSIVE printf_from(_, _, _)
printf_from(format, arg, i) ==
    IF i > Len(format) THEN <<>>
    ELSE IF format[i] = 37 /\ ByteAt(format, i + 1) = 115
         THEN arg \o printf_from(format, arg, i + 2)
         ELSE <<format[i]>> \o printf_from(format, arg, i + 1)

\* g_strdup_printf(format, arg) for a format whose only conversion is %s:
\* the bytes of the format, each %s replaced by the bytes of the argument.
g_strdup_printf(format, arg) == printf_from(format, arg, 1)

\* FlValue constructors.
fl_value_new_bool(b) == [type |-> "bool", bool |-> b]
fl_value_new_string(s) == [type |-> "string", string |-> s]
fl_value_new_list == [type |-> "list", list |-> <<>>]
fl_value_append(l, v) == [l EXCEPT !.list = Append(@, v)]

\* FlMethodResponse constructors.
fl_method_success_response_new(result) == [kind |-> "success", result |-> result]
fl_method_not_implemented_response_new == [kind |-> "not_implemented"]

(***************************************************************************)
(* The operating system.                                                   *)
(***************************************************************************)
\* Whether directory dir holds an executable named file.
Holds(inst, dir, file) ==
    \/ file = "which" /\ dir = "/usr/bin"
    \/ file = "edge-tts" /\ dir \in inst

\* Whether the search path finds an executable named file.
OnPath(inst, path, file) == \E i \in 1..Len(path) : Holds(inst, path[i], file)

\* The exit code of "sh -c command" for a command of the form
\* "prog arg > ... 2>&1" where prog is which(1): 127 when the shell does not
\* find prog on PATH, else 0 when which finds arg on PATH and 1 when not.
Sh(command, env, inst) ==
    IF ~OnPath(inst, env.PATH, command.prog) THEN 127
    ELSE IF OnPath(inst, env.PATH, command.arg) THEN 0
    ELSE 1

\* The wait status of a child that exited with the given code.
WaitStatus(code) == code * 256

\* What system() returns when the child cannot be created: the status of a
\* shell that exited with 127.  No process has run.
SpawnFailedStatus == WaitStatus(127)

\* What system() returns when the child ran and exited but its status could
\* not be collected (the host ignores SIGCHLD, the kernel reaps the child
\* and waitpid fails).
WaitFailedStatus == 0 - 1

\* struct utsname uname_data = {}: all fields empty strings.
ZeroUtsname == [sysname |-> <<>>, release |-> <<>>]

\* uname(&uname_data): fills the structure in, or fails and leaves it alone.
uname(uname_data, k, ok) == IF ok THEN k ELSE uname_data

(***************************************************************************)
(* alouette_lib_tts_plugin_handle_method_call                              *)
(***************************************************************************)
\* A chain of comparisons that ignores case: what the handler's is not.
DispatchIgnoringCase(method) ==
    IF strcasecmp(method, S_isEdgeTTSAvailable) = 0 THEN "L25"
    ELSE IF strcasecmp(method, S_getAvailableTTSEngines) = 0 THEN "L31"
    ELSE IF strcasecmp(method, S_getPlatformVersion) = 0 THEN "L36"
    ELSE "L42"

\* The branch the if / else-if chain selects for a method name, named by
\* the line of the branch's first statement.
Dispatch(method) ==
    IF strcmp(method, S_isEdgeTTSAvailable) = 0 THEN "L25"
    ELSE IF strcmp(method, S_getAvailableTTSEngines) = 0 THEN "L31"
    ELSE IF strcmp(method, S_getPlatformVersion) = 0 THEN "L36"
    ELSE "L42"

\* The branches that call system(), and the command each passes to it.
Probing == {"L25", "L31"}
CommandOf(branch) == IF branch = "L25" THEN Command25 ELSE Command31

\* Availability as "system() did not fail".
IsEdgeTTSAvailableUnlessSystemFailed(exit_status) ==
    fl_method_success_response_new(fl_value_new_bool(exit_status # -1))

\* Availability as "which did not exit with 1": a test of one failure status
\* instead of the test for success.
IsEdgeTTSAvailableUnlessExitOne(exit_status) ==
    fl_method_success_response_new(fl_value_new_bool(exit_status # 256))

\* Lines 26-27: the response of the isEdgeTTSAvailable branch.
IsEdgeTTSAvailableResponse(exit_status) ==
    fl_method_success_response_new(fl_value_new_bool(exit_status = 0))

\* The engine list with the test of the status inverted.
GetAvailableTTSEnginesInverted(exit_status) ==
    fl_method_success_response_new(
        IF exit_status # 0
        THEN fl_value_append(fl_value_new_list, fl_value_new_string(S_edge_tts))
        ELSE fl_value_new_list)

\* The engine list with every status that is not a verdict of which(1)
\* reported as an error.
GetAvailableTTSEnginesOrError(exit_status) ==
    IF exit_status \notin {0, 256} THEN [kind |-> "error", code |-> "probe"]
    ELSE fl_method_success_response_new(
            IF exit_status = 0
            THEN fl_value_append(fl_value_new_list, fl_value_new_string(S_edge_tts))
            ELSE fl_value_new_list)

\* Lines 29-34: the response of the getAvailableTTSEngines branch.
GetAvailableTTSEnginesResponse(exit_status) ==
    fl_method_success_response_new(
        IF exit_status = 0
        THEN fl_value_append(fl_value_new_list, fl_value_new_string(S_edge_tts))
        ELSE fl_value_new_list)

\* The platform version without the space of the format.
GetPlatformVersionNoSpace(uname_data) ==
    fl_method_success_response_new(
        fl_value_new_string(g_strdup_printf(S_Linux \o <<37, 115>>, uname_data.release)))

\* Lines 38-40: the response of the getPlatformVersion branch.
GetPlatformVersionResponse(uname_data) ==
    fl_method_success_response_new(
        fl_value_new_string(g_strdup_printf(S_format, uname_data.release)))

\* Line 42: the response of the final else.
NotImplementedResponse == fl_method_not_implemented_response_new

\* The response of a branch.
ResponseOf(branch, exit_status, uname_data) ==
    CASE branch = "L25" -> IsEdgeTTSAvailableResponse(exit_status)
      [] branch = "L31" -> GetAvailableTTSEnginesResponse(exit_status)
      [] branch = "L36" -> GetPlatformVersionResponse(uname_data)
      [] OTHER -> NotImplementedResponse

\* A handler that remembers the first probe status in the instance and
\* answers later probes from it.
HandleCaching(s, branch, exit_status, uname_data) ==
    IF branch \in Probing
    THEN LET used == IF "cached" \in DOMAIN s THEN s.cached ELSE exit_status
         IN  [self |-> [parent_instance |-> s.parent_instance, cached |-> used],
              response |-> ResponseOf(branch, used, uname_data)]
    ELSE [self |-> s, response |-> ResponseOf(branch, exit_status, uname_data)]

\* Lines 19-43: what the handler leaves in the instance and the response it
\* builds.  The handler never reads or writes a field of self.
Handle(s, branch, exit_status, uname_data) ==
    [self |-> s, response |-> ResponseOf(branch, exit_status, uname_data)]

\* A respond that drops the not-implemented response.
RespondUnlessNotImplemented(c, response) ==
    IF response.kind = "not_implemented" THEN c
    ELSE [c EXCEPT !.responses = Append(@, response)]

\* Line 45: fl_method_call_respond(method_call, response, nullptr).
fl_method_call_respond(c, response) ==
    [c EXCEPT !.responses = Append(@, response)]

\* A wait that gives up on a process that does not exit.
WaitReturnsOrTimesOut(p) == p.state \in {"exited", "hung"}

\* system() returns once the child it waits for has exited, and not before.
WaitReturns(p) == p.state = "exited"

\* alouette_lib_tts_plugin_register_with_registrar: the instance it creates
\* has no field but its parent GObject, held by the channel's handler.
NewPlugin == [parent_instance |-> "GObject"]

NoProc == [state |-> "none", code |-> 0, command |-> WhichEdgeTts]

\* The rest of the handler from the point where the probe's status (if any)
\* and the uname data (if any) are known: build the response, respond,
\* return.  The observation records what the call did: the commands it
\* passed to system() and the environment the child ran them in, the number
\* of child processes created, the status system() returned, the structure
\* uname was called on, the state of the child when the call was answered,
\* and the responses sent.
Finish(c, branch, commands, children, status, uts, probe) ==
    LET h == Handle(self, branch,
                    IF status = <<>> THEN 0 ELSE status[1],
                    IF uts = <<>> THEN ZeroUtsname ELSE uts[1])
        done == fl_method_call_respond(c, h.response)
    IN  /\ self' = h.self
        /\ log' = log \cup
              { [name |-> done.name, commands |-> commands,
                 environ |-> IF children = 0 THEN <<>> ELSE <<environ>>,
                 children |-> children, status |-> status, uts |-> uts,
                 probe |-> probe, responses |-> done.responses] }
        /\ pc' = "idle"
        /\ call' = <<>>
        /\ proc' = NoProc

\* method_call_cb: the host delivers a call and the handler runs up to its
\* return, or up to the point where system() blocks on the child it forked.
MethodCall(name, forkOK, unameOK) ==
    /\ pc = "idle"
    /\ Cardinality(log) < MaxCalls
    /\ LET c == [name |-> name, responses |-> <<>>]
           branch == Dispatch(name)
       IN  IF branch \in Probing
           THEN IF forkOK
                THEN /\ pc' = branch
                     /\ call' = <<c>>
                     /\ proc' = [state |-> "running", code |-> 0,
                                 command |-> CommandOf(branch)]
                     /\ UNCHANGED <<self, log>>
                ELSE Finish(c, branch, <<CommandOf(branch)>>, 0,
                            <<SpawnFailedStatus>>, <<>>, "none")
           ELSE IF branch = "L36"
                THEN Finish(c, branch, <<>>, 0, <<>>,
                            <<uname(ZeroUtsname, kernel, unameOK)>>, "none")
                ELSE Finish(c, branch, <<>>, 0, <<>>, <<>>, "none")
    /\ UNCHANGED <<environ, installed, kernel>>

\* The probe process runs the command and exits.
ProbeExit ==
    /\ proc.state = "running"
    /\ proc' = [proc EXCEPT !.state = "exited",
                            !.code = Sh(proc.command, environ, installed)]
    /\ UNCHANGED <<pc, call, self, environ, installed, kernel, log>>

\* The probe process blocks for ever.
ProbeHang ==
    /\ proc.state = "running"
    /\ proc' = [proc EXCEPT !.state = "hung"]
    /\ UNCHANGED <<pc, call, self, environ, installed, kernel, log>>

\* system() returns the wait status of the child, or -1 when the status of
\* the exited child could not be collected, and the handler runs to its
\* return.
SystemReturn(waitOK) ==
    /\ pc \in Probing
    /\ WaitReturns(proc)
    /\ Finish(call[1], pc, <<proc.command>>, 1,
              <<IF waitOK THEN WaitStatus(proc.code) ELSE WaitFailedStatus>>, <<>>,
              proc.state)
    /\ UNCHANGED <<environ, installed, kernel>>

SystemReturns == \E waitOK \in BOOLEAN : SystemReturn(waitOK)

\* The host process ends and a new run starts with another environment;
\* the plugin is registered anew.
Restart(env) ==
    /\ pc = "idle"
    /\ environ' = env
    /\ self' = NewPlugin
    /\ UNCHANGED <<pc, call, proc, installed, kernel, log>>

Init ==
    /\ pc = "idle"
    /\ call = <<>>
    /\ proc = NoProc
    /\ self = NewPlugin
    /\ environ \in Environments
    /\ installed \in Installations
    /\ kernel \in Kernels
    /\ log = {}

Next ==
    \/ \E name \in MethodNames, forkOK \in BOOLEAN, unameOK \in BOOLEAN :
            MethodCall(name, forkOK, unameOK)
    \/ ProbeExit
    \/ ProbeHang
    \/ SystemReturns
    \/ \E env \in Environments : Restart(env)

Spec == Init /\ [][Next]_vars

\* The thread that runs the handler keeps running: once system() can
\* return, it does.
LiveSpec == Spec /\ WF_vars(SystemReturns)

(***************************************************************************)
(* Properties.                                                             *)
(***************************************************************************)
\* The observations of calls that name a probing method.
ProbingNames == {S_isEdgeTTSAvailable, S_getAvailableTTSEngines}
\* The one response of an observation, when it has exactly one.
Answered(o, r) == o.responses = <<r>>
BoolSuccess(b) == [kind |-> "success", result |-> [type |-> "bool", bool |-> b]]
ListSuccess(l) == [kind |-> "success", result |-> [type |-> "list", list |-> l]]
StringSuccess(str) == [kind |-> "success", result |-> [type |-> "string", string |-> str]]
EdgeTtsItem == [type |-> "string", string |-> S_edge_tts]
\* "Linux ": the fixed platform label and the space after it.
LinuxSpace == <<76, 105, 110, 117, 120, 32>>

\* C1: a call whose name is not byte for byte one of the three recognized
\* names is answered with the not-implemented response, never with a
\* success response, and neither spawns a probe nor queries uname; no probe
\* is ever in flight for such a call.
C1_UnrecognizedNotImplemented ==
    /\ \A o \in log :
          o.name \notin Recognized =>
             /\ Answered(o, [kind |-> "not_implemented"])
             /\ o.commands = <<>>
             /\ o.children = 0
             /\ o.uts = <<>>
    /\ pc \in Probing => call[1].name \in Recognized

C1_Witness ==
    /\ \E o \in log : o.name = S_lowercase /\ Answered(o, [kind |-> "not_implemented"])
    /\ \E o \in log : o.name = S_longer /\ Answered(o, [kind |-> "not_implemented"])

\* C2: isEdgeTTSAvailable is answered with success(true) when the probe's
\* status is 0, which happens only when the search path finds edge-tts, and
\* with success(false) for every other status: a non-zero exit, a failed
\* spawn, and the -1 of a system() that could not collect the status.
C2_IsEdgeTTSAvailable ==
    \A o \in log :
       o.name = S_isEdgeTTSAvailable =>
          /\ Answered(o, BoolSuccess(o.status = <<0>>))
          /\ o.status = <<0>> => OnPath(installed, o.environ[1].PATH, "edge-tts")
          /\ o.status # <<>>

C2_Witness ==
    /\ \E o \in log : /\ o.name = S_isEdgeTTSAvailable
                      /\ o.status = <<0>>
                      /\ Answered(o, BoolSuccess(TRUE))
    /\ \E o \in log : /\ o.name = S_isEdgeTTSAvailable
                      /\ o.status = <<-1>>
                      /\ Answered(o, BoolSuccess(FALSE))
    /\ \E o \in log : /\ o.name = S_isEdgeTTSAvailable
                      /\ o.children = 0
                      /\ Answered(o, BoolSuccess(FALSE))

\* C3: getAvailableTTSEngines is answered with success(["edge-tts"]) exactly
\* when the probe's status is 0 and with success([]) exactly when it is not
\* (a failed spawn included); the list holds nothing else.
C3_GetAvailableTTSEngines ==
    \A o \in log :
       o.name = S_getAvailableTTSEngines =>
          /\ o.status # <<>>
          /\ o.status = <<0>> => Answered(o, ListSuccess(<<EdgeTtsItem>>))
          /\ o.status # <<0>> => Answered(o, ListSuccess(<<>>))

C3_Witness ==
    /\ \E o \in log : /\ o.name = S_getAvailableTTSEngines
                      /\ Answered(o, ListSuccess(<<EdgeTtsItem>>))
    /\ \E o \in log : /\ o.name = S_getAvailableTTSEngines
                      /\ o.status = <<-1>>
                      /\ Answered(o, ListSuccess(<<>>))
    /\ \E o \in log : /\ o.name = S_getAvailableTTSEngines
                      /\ o.children = 0
                      /\ Answered(o, ListSuccess(<<>>))

\* C4 as stated: when uname reports a kernel name and a release,
\* getPlatformVersion is answered with that kernel name, a space, and that
\* release.
C4_KernelNameFromQuery ==
    \A o \in log :
       (o.name = S_getPlatformVersion /\ o.uts = <<kernel>>) =>
          Answered(o, StringSuccess(kernel.sysname \o <<32>> \o kernel.release))

\* C4 amended: getPlatformVersion queries uname once and is answered with
\* the fixed label "Linux", a space, and the release field of the queried
\* structure (empty when the query failed); the kernel name is not used.
C4_FixedLabelAndRelease ==
    \A o \in log :
       o.name = S_getPlatformVersion =>
          /\ Len(o.uts) = 1
          /\ o.uts[1] \in {kernel, ZeroUtsname}
          /\ Answered(o, StringSuccess(LinuxSpace \o o.uts[1].release))

C4_Witness ==
    \E o \in log :
       /\ o.name = S_getPlatformVersion
       /\ o.uts = <<[sysname |-> S_FreeBSD, release |-> S_6_1]>>
       /\ Answered(o, StringSuccess(LinuxSpace \o S_6_1))

\* C5: every call is answered by a success response or by the
\* not-implemented response, never by an error; a recognized name gets a
\* success response of its declared payload type whatever the probe or the
\* query did, and the not-implemented response is for unrecognized names
\* alone.
C5_TwoResponseKinds ==
    \A o \in log :
       /\ Len(o.responses) = 1
       /\ o.responses[1].kind \in {"success", "not_implemented"}
       /\ o.responses[1].kind = "not_implemented" <=> o.name \notin Recognized
       /\ o.name = S_isEdgeTTSAvailable => o.responses[1].result.type = "bool"
       /\ o.name = S_getAvailableTTSEngines => o.responses[1].result.type = "list"
       /\ o.name = S_getPlatformVersion => o.responses[1].result.type = "string"

C5_Witness ==
    /\ \E o \in log : /\ o.name = S_getAvailableTTSEngines
                      /\ o.children = 0
                      /\ o.responses[1].kind = "success"
    /\ \E o \in log : /\ o.name = S_isEdgeTTSAvailable
                      /\ o.status = <<-1>>
                      /\ o.responses[1].kind = "success"
    /\ \E o \in log : /\ o.name = S_getPlatformVersion
                      /\ o.uts = <<ZeroUtsname>>
                      /\ o.responses[1].kind = "success"

\* C6: every call the handler has returned from was answered exactly once;
\* while the handler is blocked on its probe the call has not been answered;
\* a call that created a probe process was answered after that process had
\* exited; and no call object outlives the handler unanswered.
C6_ExactlyOneResponse ==
    /\ \A o \in log :
          /\ Len(o.responses) = 1
          /\ o.children = 1 => o.probe = "exited"
    /\ pc \in Probing => Len(call) = 1 /\ call[1].responses = <<>>
    /\ pc = "idle" => call = <<>>

C6_Witness ==
    /\ \E o \in log : o.children = 1 /\ o.probe = "exited" /\ Len(o.responses) = 1
    /\ pc \in Probing
    /\ proc.state = "running"
    /\ call[1].responses = <<>>

\* C7: two calls with the same method name that observed the same probe
\* status and the same uname data were answered alike, whatever run they
\* were made in and whatever was called before; and the plugin instance is
\* what registration made it.
C7_NoCrossCallState ==
    /\ self = NewPlugin
    /\ \A o1, o2 \in log :
          (o1.name = o2.name /\ o1.status = o2.status /\ o1.uts = o2.uts)
             => o1.responses = o2.responses

C7_Witness ==
    \E o1, o2, o3 \in log :
       /\ o1 # o2
       /\ o1.name = o2.name
       /\ o1.name \in ProbingNames
       /\ o1.status = o2.status
       /\ o1.children = 1
       /\ o1.responses = o2.responses
       /\ o3.name \in ProbingNames
       /\ o3.name # o1.name
       /\ o3.status # o1.status

\* C8 as stated: two calls of the same probing method on the same file
\* system, with the same spawn outcome and the same outcome of the wait,
\* differing in the environment alone, were answered alike.
C8_EnvironmentIrrelevant ==
    \A o1, o2 \in log :
       ( /\ o1.name = o2.name
         /\ o1.name \in ProbingNames
         /\ o1.children = o2.children
         /\ (o1.status = <<-1>>) <=> (o2.status = <<-1>>) )
          => o1.responses = o2.responses

\* C8 amended: the environment reaches the response through the probe
\* alone: two calls of the same probing method with the same spawn outcome
\* and the same outcome of the wait, differing in the environment, were
\* answered alike whenever the probe command succeeds under both
\* environments or under neither.
C8_EnvironmentThroughProbeOnly ==
    \A o1, o2 \in log :
       ( /\ o1.name = o2.name
         /\ o1.name \in ProbingNames
         /\ o1.children = o2.children
         /\ (o1.status = <<-1>>) <=> (o2.status = <<-1>>)
         /\ o1.children = 1 =>
               ((Sh(WhichEdgeTts, o1.environ[1], installed) = 0)
                  <=> (Sh(WhichEdgeTts, o2.environ[1], installed) = 0)) )
          => o1.responses = o2.responses

C8_Witness ==
    \E o1, o2 \in log :
       /\ o1.name = o2.name
       /\ o1.name \in ProbingNames
       /\ o1.children = 1
       /\ o2.children = 1
       /\ o1.environ # o2.environ
       /\ Sh(WhichEdgeTts, o1.environ[1], installed) = 1
       /\ Sh(WhichEdgeTts, o2.environ[1], installed) = 127
       /\ o1.status = <<256>>
       /\ o2.status = <<32512>>
       /\ o1.responses = o2.responses

\* C9: once the probe process has exited the handler returns and the call
\* is answered; the handler leaves its wait only through the exit of the
\* process; and while the process hangs nothing is answered, nothing is
\* logged and the handler stays where it is, so no later call is handled.
C9_WaitsWithoutTimeout ==
    /\ \A m \in ProbingNames :
          (pc \in Probing /\ call[1].name = m /\ proc.state = "exited")
             ~> (pc = "idle" /\ \E o \in log : o.name = m /\ Len(o.responses) = 1)
    /\ [][(pc \in Probing /\ pc' = "idle")
             => (proc.state = "exited" /\ \E o \in log' : o.name = call[1].name)]_vars
    /\ [][proc.state = "hung"
             => (proc'.state = "hung" /\ pc' = pc /\ call' = call /\ log' = log)]_vars

C9_Witness ==
    /\ proc.state = "hung"
    /\ pc \in Probing
    /\ call[1].responses = <<>>
    /\ log # {}

\* C10 as stated: each call of a probing method created exactly one probe
\* process.
C10_ExactlyOneProcess ==
    \A o \in log : o.name \in ProbingNames => o.children = 1

\* C10 amended: each call of a probing method called system() exactly once
\* with the command "which edge-tts > /dev/null 2>&1", the same for both
\* methods, and created one probe process, which had exited when the call
\* was answered, or none when the spawn failed (system() then returns the
\* status of a shell that exited 127); a call of getPlatformVersion or of an
\* unrecognized name
\* called system() not at all and created no process.
C10_OneSpawnAttempt ==
    /\ \A o \in log :
          /\ o.name \in ProbingNames =>
                /\ o.commands = <<[prog |-> "which", arg |-> "edge-tts",
                                   stdout |-> "/dev/null", stderr |-> "/dev/null"]>>
                /\ o.children \in {0, 1}
                /\ o.children = 0 => o.status = <<32512>> /\ o.probe = "none"
                /\ o.children = 1 => o.probe = "exited"
          /\ o.name \notin ProbingNames => o.commands = <<>> /\ o.children = 0
    /\ pc \in Probing =>
          /\ call[1].name \in ProbingNames
          /\ proc.command = [prog |-> "which", arg |-> "edge-tts",
                             stdout |-> "/dev/null", stderr |-> "/dev/null"]
    /\ pc = "idle" => proc.state = "none"

C10_Witness ==
    /\ \E o \in log : o.name = S_getAvailableTTSEngines /\ o.children = 1
    /\ \E o \in log : o.name = S_isEdgeTTSAvailable /\ o.children = 0 /\ o.status = <<32512>>

====
